---- MODULE Spec2Model ----
(***************************************************************************)
(* A model of app.py: the recursive file-tree analyzer                     *)
(* (CosmicFileAnalyzer), the worker/queue/poll-loop hand-off of the scan   *)
(* (GalacticExplorerGUI.start_analysis .. process_queue), the flattened    *)
(* output (flatten_data) and the streaming AI task with its stop event.    *)
(*                                                                         *)
(* Python strings are sequences of code points; None is the empty option   *)
(* <<>> and a present value v is <<v>>.  A call that may raise returns a   *)
(* record with a "raised" flag, which a try/except tests.  Presentational   *)
(* node fields (timestamps, size_human) are left out of the nodes; the     *)
(* calls that compute the timestamps are kept where they can raise.        *)
(***************************************************************************)
EXTENDS Integers, Sequences, FiniteSets, TLC

VARIABLES
    \* ---- get_content exercised on its own (SpecContent)
    gc_file,            \* the file handed to get_content
    gc_full,            \* include_full_content of the analyzer
    gc_out,             \* <<>> before the call, <<its outcome>> after it
    gc_lang,            \* the same for detect_language
    \* ---- analyze_path called on its own, with any callback (SpecWalk)
    ap_path,            \* the path handed to analyze_path
    ap_site,            \* the condition of the file system and of the callback
    ap_full,            \* include_full_content of the analyzer
    ap_out,             \* <<>> before the call, <<its outcome>> after it
    \* ---- the scan: GUI thread, worker threads, queue (SpecScan)
    queue,              \* self.queue, FIFO of messages
    workers,            \* walk -> its worker thread (analyze_folder); a thread
                        \* that has ended is forgotten when the next walk starts
    walks_started,      \* number of walks started so far
    analyzer,           \* self.analyzer: <<>> or <<include_full_content>>
    analyze_btn,        \* state of the "Begin Analysis" button
    save_btn,           \* state of the "Save Analysis" button
    progress_var,       \* the progress label
    tree,               \* the tree view's rows, in insertion order
    item_paths,         \* self.item_paths: row -> path
    analysis_result,    \* self.analysis_result: <<>> while the attribute is unset
    include_content_var,\* the "Include Full File Contents" check box
    poll_scheduled,     \* an after(100, process_queue) callback is pending
    saved,              \* what save_output wrote last: <<>> or <<[format, items]>>
                        \* (forgotten when the next walk starts)
    \* ---- history of the scan, for the properties
    sent,               \* walk -> the messages its worker has put, in order
                        \* (kept until the next walk starts)
    last_terminal,      \* the terminal message processed last, since that start
    poll_raised,        \* the latest process_queue ended by a handler raising
    \* ---- the AI tasks (SpecAI)
    stop_event,         \* self.stop_event
    tasks,              \* one record per started AI task (thread of run_ai_task)
    ai_output,          \* self.ai_output_text: the inserted pieces, in order
    stops               \* number of stop_ai_task calls so far

vars == <<gc_file, gc_full, gc_out, gc_lang, ap_path, ap_site, ap_full,
          ap_out, queue, workers, walks_started, analyzer,
          analyze_btn, save_btn, progress_var, tree, item_paths,
          analysis_result, include_content_var, poll_scheduled, saved, sent,
          last_terminal, poll_raised, stop_event, tasks, ai_output, stops>>

walkVars == <<ap_path, ap_site, ap_full, ap_out>>
contentVars == <<gc_file, gc_full, gc_out, gc_lang, walkVars>>
scanVars == <<queue, workers, walks_started, analyzer, analyze_btn, save_btn,
              progress_var, tree, item_paths, analysis_result,
              include_content_var, poll_scheduled, saved, sent, last_terminal,
              poll_raised>>
aiVars == <<stop_event, tasks, ai_output, stops>>

(***************************************************************************)
(* Generic helpers                                                         *)
(***************************************************************************)
None == <<>>
Some(v) == <<v>>

Min(a, b) == IF a < b THEN a ELSE b

\* s[:n]
Take(s, n) == SubSeq(s, 1, Min(n, Len(s)))

Range(s) == {s[i] : i \in DOMAIN s}

Ok(v) == [raised |-> FALSE, value |-> v]
Raise(e) == [raised |-> TRUE, exc |-> e]

\* str(e) of the exceptions the file system raises (the errno name stands
\* for the message text).
StrOfExc(e) ==
    CASE e = "PermissionError"   -> <<69, 65, 67, 67, 69, 83>>
      [] e = "FileNotFoundError" -> <<69, 78, 79, 69, 78, 84>>
      [] e = "NotADirectoryError" -> <<69, 78, 79, 84, 68, 73, 82>>
      [] e = "CallbackError"     -> <<98, 111, 111, 109>>
      [] OTHER                   -> <<69, 73, 79>>

(***************************************************************************)
(* CosmicFileAnalyzer.get_content and detect_language                      *)
(***************************************************************************)
TextCap == 1000
BinCap == 100
ReplacementChar == 65533

text_extensions ==
    {".txt", ".md", ".py", ".js", ".html", ".css", ".json", ".xml", ".csv",
     ".java", ".cpp", ".c", ".cs", ".rb", ".go", ".php", ".rs", ".swift",
     ".kt", ".ts"}

\* mimetypes.guess_type(path)[0] or 'application/octet-stream'
MimeType(ext) ==
    CASE ext = ".py"  -> "text/x-python"
      [] ext = ".htm" -> "text/html"
      [] ext = ".png" -> "image/png"
      [] OTHER        -> "application/octet-stream"

\* 'text' in mime_type
MimeContainsText(mime) == mime \in {"text/x-python", "text/html", "text/plain"}

\* open(..., 'r', encoding='utf-8', errors='replace').read() over bytes that
\* are ASCII or 0xFF: an ASCII byte is its character, 0xFF is never valid
\* UTF-8 and becomes U+FFFD.
Decode(bytes) ==
    [i \in 1..Len(bytes) |-> IF bytes[i] < 128 THEN bytes[i] ELSE ReplacementChar]

B64Char(s) ==
    IF s < 26 THEN 65 + s
    ELSE IF s < 52 THEN 97 + (s - 26)
    ELSE IF s < 62 THEN 48 + (s - 52)
    ELSE IF s = 62 THEN 43 ELSE 47

\* base64.b64encode(bytes).decode('utf-8')
B64Encode(bytes) ==
    LET n == Len(bytes)
        byteAt(i) == IF i <= n THEN bytes[i] ELSE 0
        triple(g) == byteAt(3 * g + 1) * 65536 + byteAt(3 * g + 2) * 256
                     + byteAt(3 * g + 3)
        sextet(g, j) == (triple(g) \div (64 ^ (3 - j))) % 64
    IN [k \in 1..(4 * ((n + 2) \div 3)) |->
          LET g == (k - 1) \div 4
              j == (k - 1) % 4
          IN IF j >= 2 /\ 3 * g + j > n THEN 61 ELSE B64Char(sextet(g, j))]

\* open(file_path, ...): raises when the file cannot be opened
OpenFile(f) ==
    IF f.fault = "unreadable" THEN Raise("PermissionError") ELSE Ok(f.bytes)

\* get_lexer_for_filename(file_path, content).name; raises ClassNotFound
LexerName(ext) ==
    CASE ext = ".py"  -> Ok("Python")
      [] ext = ".htm" -> Ok("HTML")
      [] OTHER        -> Raise("ClassNotFound")

DetectLanguageBody(f) ==
    LET opened == OpenFile(f)
    IN IF opened.raised THEN opened ELSE LexerName(f.ext)

\* try: ... except: return 'Plain Text'
DetectLanguage(f) ==
    LET r == DetectLanguageBody(f)
    IN IF r.raised THEN Ok("Plain Text") ELSE r

ContentError(e) ==
    [content |-> None,
     preview |-> <<69, 114, 114, 111, 114, 32, 114, 101, 97, 100, 105, 110,
                   103, 32, 102, 105, 108, 101, 58, 32>> \o StrOfExc(e),
     truncated |-> FALSE,
     language |-> None]

\* Variant: the cap is compared with >= (an off-by-one).
TextTruncated_OffByOne(content) == Len(content) >= TextCap

TextTruncated(content) == Len(content) > TextCap

BinTruncated(binary_content) == Len(binary_content) > BinCap

TextResult(content, full, language) ==
    [content |-> Some(content),
     preview |-> IF ~full THEN Take(content, TextCap) ELSE content,
     truncated |-> IF ~full THEN TextTruncated(content) ELSE FALSE,
     language |-> Some(language)]

BinResult(binary_content, full) ==
    [content |-> Some(B64Encode(binary_content)),
     preview |-> IF ~full THEN B64Encode(Take(binary_content, BinCap))
                 ELSE B64Encode(binary_content),
     truncated |-> IF ~full THEN BinTruncated(binary_content) ELSE FALSE,
     language |-> None]

IsText(ext) == ext \in text_extensions \/ MimeContainsText(MimeType(ext))

GetContentBody(f, full) ==
    LET language == DetectLanguage(f).value
        opened == OpenFile(f)
    IN IF opened.raised THEN opened
       ELSE IF IsText(f.ext)
            THEN Ok(TextResult(Decode(opened.value), full, language))
            ELSE Ok(BinResult(opened.value, full))

\* Variant: no except clause around the body.
GetContent_NoExcept(f, full) == GetContentBody(f, full)

\* try: ... except Exception as e: return the error record
GetContent(f, full) ==
    LET r == GetContentBody(f, full)
    IN IF r.raised THEN Ok(ContentError(r.exc)) ELSE r

(***************************************************************************)
(* The file system a walk sees.  Paths are numbered; a path's name is its  *)
(* number.  The tree is fixed in shape,                                    *)
(*     1/ { 2.py, 3/ { 5.htm, 6/ { 7.dat } }, 4.png }                      *)
(* and a walk sees it with at most one entry in a faulty condition.        *)
(***************************************************************************)
FileEntry(ext, bytes) ==
    [kind |-> "file", ext |-> ext, bytes |-> bytes, fault |-> "ok",
     entries |-> <<>>]

DirEntry(entries) ==
    [kind |-> "dir", ext |-> "", bytes |-> <<>>, fault |-> "ok",
     entries |-> entries]

BaseFs ==
    << DirEntry(<<2, 3, 4>>),
       FileEntry(".py", <<120>>),
       DirEntry(<<5, 6>>),
       FileEntry(".png", <<137, 80, 78, 71, 13, 10, 26, 10>>),
       FileEntry(".htm", <<60, 255>>),
       DirEntry(<<7>>),
       FileEntry(".dat", <<0, 1, 2, 255>>) >>

Paths == DOMAIN BaseFs

\* The parent directory of a path of BaseFs (0 for the root).
Parent(p) ==
    IF \E d \in Paths : p \in Range(BaseFs[d].entries)
    THEN CHOOSE d \in Paths : p \in Range(BaseFs[d].entries)
    ELSE 0

\* The conditions an entry can be in when the walk reaches it:
\*   unreadable  open() raises PermissionError (stat still works)
\*   vanished    the entry is gone, or a dangling link: getmtime raises
\*   special     neither a regular file nor a directory (a FIFO, a socket)
\*   denied      os.scandir raises PermissionError
\*   ioerror     os.scandir raises another OSError
FaultsOf(p) ==
    IF BaseFs[p].kind = "file"
    THEN {"unreadable", "vanished", "special"}
    ELSE {"denied", "ioerror", "vanished"}

\* The conditions the walks are run under: no fault, or one entry at fault.
FaultSites ==
    { <<0, "ok">>,
      <<5, "unreadable">>,   \* a file whose content cannot be read
      <<2, "vanished">>,     \* the first entry of the root is gone
      <<4, "vanished">>,     \* the last entry of the root is gone
      <<7, "vanished">>,     \* a file two directories down is gone
      <<4, "special">>,      \* an entry that is neither file nor directory
      <<6, "denied">>,       \* a nested directory that cannot be listed
      <<3, "ioerror">>,      \* a directory whose listing fails otherwise
      <<1, "denied">>,       \* the root cannot be listed
      <<1, "vanished">> }    \* the root is gone when the walk reaches it

ValidSite(site) == IF site[1] = 0 THEN TRUE ELSE site[2] \in FaultsOf(site[1])

FsWith(site) ==
    IF site[1] = 0 THEN BaseFs ELSE [BaseFs EXCEPT ![site[1]].fault = site[2]]

(***************************************************************************)
(* CosmicFileAnalyzer.analyze_path                                         *)
(***************************************************************************)
FileMsg(p) == [type |-> "progress", msg |-> [kind |-> "file", name |-> p]]
DirMsg(p) == [type |-> "progress", msg |-> [kind |-> "directory", name |-> p]]

\* dict.update: the new keys win
Update(info, new) == new @@ info

\* Path.is_dir() / Path.is_file(): both False for what does not exist
IsDir(e) == e.kind = "dir" /\ e.fault # "vanished"
IsFile(e) == e.kind = "file" /\ e.fault \notin {"vanished", "special"}

\* os.path.getmtime / os.path.getctime
GetMTime(e) == IF e.fault = "vanished" THEN Raise("FileNotFoundError") ELSE Ok(0)

\* progress_callback(message) for the entry: the callback is the caller's and
\* may raise (the entry's condition "callback_raises").
ProgressCallback(e, msg) ==
    IF e.fault = "callback_raises" THEN Raise("CallbackError") ELSE Ok(<<msg>>)

\* os.scandir(path)
ScanDir(e) ==
    CASE e.kind # "dir" \/ e.fault = "special" -> Raise("NotADirectoryError")
      [] e.fault = "denied"  -> Raise("PermissionError")
      [] e.fault = "ioerror" -> Raise("OSError")
      [] OTHER               -> Ok(e.entries)

\* Variant: only the sizes of files are added up.
AddSize_FilesOnly(total_size, item_info) ==
    total_size + (IF item_info.type = "file" /\ "size" \in DOMAIN item_info
                  THEN item_info.size ELSE 0)

\* total_size += item_info.get('size', 0)
AddSize(total_size, item_info) ==
    total_size + (IF "size" \in DOMAIN item_info THEN item_info.size ELSE 0)

\* Variant: the directory is announced before its entries are walked.
DirEvents_First(loop_events, p) == <<DirMsg(p)>> \o loop_events

\* The notifications of a directory: those of the loop over its entries,
\* then its own.
DirEvents(loop_events, p) == Append(loop_events, DirMsg(p))

\* except PermissionError: "Permission denied" / except Exception: str(e)
DirError(e) ==
    IF e = "PermissionError"
    THEN <<80, 101, 114, 109, 105, 115, 115, 105, 111, 110, 32, 100, 101, 110,
           105, 101, 100>>
    ELSE StrOfExc(e)

FileInfo(info, e, full) ==
    LET content_info == GetContent(e, full).value
    IN Update(info, [size |-> Len(e.bytes), mime_type |-> MimeType(e.ext)]
                    @@ content_info)

RECURSIVE AnalyzePath(_, _, _)
RECURSIVE ScanLoop(_, _, _, _)

\* for item in os.scandir(path): ... ; a raise of the recursive call leaves
\* the loop.  (The singleton sets bind the outcome of a call once.)
ScanLoop(fs, items, full, acc) ==
    IF Len(items) = 0
    THEN [raised |-> FALSE, contents |-> acc.contents,
          total_size |-> acc.total_size, events |-> acc.events]
    ELSE CHOOSE out \in
           { IF r.raised
             THEN [raised |-> TRUE, exc |-> r.exc,
                   events |-> acc.events \o r.events]
             ELSE CHOOSE rest \in
                    { ScanLoop(fs, Tail(items), full, next) :
                        next \in {[contents |-> Append(acc.contents, r.node),
                                   total_size |-> AddSize(acc.total_size, r.node),
                                   events |-> acc.events \o r.events]} } : TRUE
             : r \in {AnalyzePath(fs, Head(items), full)} } : TRUE

\* The try block of the directory branch, and its except clauses.
DirInfo(fs, info, p, full) ==
    LET listed == ScanDir(fs[p])
        notified == ProgressCallback(fs[p], DirMsg(p))
    IN IF listed.raised
       THEN [node |-> Update(info, [error |-> DirError(listed.exc)]),
             events |-> <<>>]
       ELSE CHOOSE out \in
              { IF loop.raised
                THEN [node |-> Update(info, [error |-> DirError(loop.exc)]),
                      events |-> loop.events]
                ELSE IF notified.raised
                THEN [node |-> Update(Update(info,
                                        [contents |-> loop.contents,
                                         size |-> loop.total_size,
                                         items_count |-> Len(loop.contents)]),
                                      [error |-> DirError(notified.exc)]),
                      events |-> loop.events]
                ELSE [node |-> Update(info,
                                      [contents |-> loop.contents,
                                       size |-> loop.total_size,
                                       items_count |-> Len(loop.contents)]),
                      events |-> DirEvents(loop.events, p)]
                : loop \in {ScanLoop(fs, listed.value, full,
                                     [contents |-> <<>>, total_size |-> 0,
                                      events |-> <<>>])} } : TRUE

AnalyzePath(fs, p, full) ==
    LET e == fs[p]
        info == [name |-> p, path |-> p,
                 type |-> IF IsDir(e) THEN "directory" ELSE "file"]
    IN IF GetMTime(e).raised
       THEN [raised |-> TRUE, exc |-> GetMTime(e).exc, events |-> <<>>]
       ELSE IF IsFile(e)
       THEN LET notified == ProgressCallback(e, FileMsg(p))
            IN IF notified.raised
               THEN [raised |-> TRUE, exc |-> notified.exc, events |-> <<>>]
               ELSE [raised |-> FALSE, node |-> FileInfo(info, e, full),
                     events |-> notified.value]
       ELSE CHOOSE out \in
              { [raised |-> FALSE, node |-> d.node, events |-> d.events] :
                  d \in {DirInfo(fs, info, p, full)} } : TRUE

(***************************************************************************)
(* GalacticExplorerGUI.analyze_folder: the messages the worker thread of   *)
(* one walk puts on the queue, in order (update_progress is the callback). *)
(***************************************************************************)
\* Variant: the error message is put in a finally clause.
AnalyzeFolder_Finally(fs, path, full) ==
    LET r == AnalyzePath(fs, path, full)
        failure == [type |-> "error", msg |-> <<>>]
    IN IF r.raised
       THEN Append(r.events, [type |-> "error", msg |-> StrOfExc(r.exc)])
       ELSE Append(Append(r.events, [type |-> "success", msg |-> r.node]),
                   failure)

AnalyzeFolder(fs, path, full) ==
    CHOOSE msgs \in
      { IF r.raised
        THEN Append(r.events, [type |-> "error", msg |-> StrOfExc(r.exc)])
        ELSE Append(r.events, [type |-> "success", msg |-> r.node])
        : r \in {AnalyzePath(fs, path, full)} } : TRUE

(***************************************************************************)
(* populate_treeview and flatten_data                                      *)
(***************************************************************************)
Contents(item) == IF "contents" \in DOMAIN item THEN item.contents ELSE <<>>

RECURSIVE AddItems(_, _, _)
RECURSIVE AddChildren(_, _, _)

\* add_items(parent_id, item_data); a row's id is its position in the tree
AddItems(acc, parent_id, item_data) ==
    LET node_id == Len(acc.tree) + 1
        acc1 == [tree |-> Append(acc.tree, [parent |-> parent_id,
                                            text |-> item_data.name]),
                 item_paths |-> Append(acc.item_paths, item_data.path)]
    IN IF item_data.type = "directory"
       THEN AddChildren(acc1, node_id, Contents(item_data))
       ELSE acc1

AddChildren(acc, node_id, children) ==
    IF Len(children) = 0 THEN acc
    ELSE CHOOSE out \in
           { AddChildren(next, node_id, Tail(children)) :
               next \in {AddItems(acc, node_id, Head(children))} } : TRUE

RECURSIVE Flatten(_, _)
RECURSIVE FlattenChildren(_, _)

\* Variant: the record is appended after the children's (post-order).
Flatten_PostOrder(items, item) ==
    LET item_copy == [k \in DOMAIN item \ {"contents"} |-> item[k]]
    IN Append(FlattenChildren(items, Contents(item)), item_copy)

\* flatten(item), items being the list it appends to
Flatten(items, item) ==
    LET item_copy == [k \in DOMAIN item \ {"contents"} |-> item[k]]
    IN FlattenChildren(Append(items, item_copy), Contents(item))

FlattenChildren(items, contents) ==
    IF Len(contents) = 0 THEN items
    ELSE FlattenChildren(Flatten(items, Head(contents)), Tail(contents))

flatten_data(data) == Flatten(<<>>, data)

(***************************************************************************)
(* The GUI thread's handlers of the scan                                   *)
(***************************************************************************)
MaxWalks == 2

Status(kind) == [kind |-> kind, name |-> 0]

\* The widgets and attributes the queue handlers write.
Gui ==
    [analyze_btn |-> analyze_btn, save_btn |-> save_btn,
     progress_var |-> progress_var, tree |-> tree, item_paths |-> item_paths,
     analysis_result |-> analysis_result]

\* populate_treeview(data).  tcl_error: the tree widget refuses the first
\* insert (a TclError), after the old rows were deleted.
PopulateTreeview(g, data, tcl_error) ==
    LET cleared == [g EXCEPT !.tree = <<>>, !.item_paths = <<>>]
        added == AddItems([tree |-> <<>>, item_paths |-> <<>>], 0, data)
    IN IF tcl_error
       THEN [raised |-> TRUE, value |-> cleared]
       ELSE [raised |-> FALSE,
             value |-> [cleared EXCEPT !.tree = added.tree,
                                       !.item_paths = added.item_paths,
                                       !.analysis_result = Some(data)]]

\* Variant: a progress message also re-enables the analyze button.
HandleProgress_Enables(g, msg) ==
    Ok([g EXCEPT !.progress_var = msg, !.analyze_btn = "normal"])

HandleProgress(g, msg) == Ok([g EXCEPT !.progress_var = msg])

HandleSuccess(g, msg, tcl_error) ==
    LET g1 == [g EXCEPT !.analyze_btn = "normal",
                        !.progress_var = Status("complete")]
        shown == PopulateTreeview(g1, msg, tcl_error)
    IN IF shown.raised THEN shown
       ELSE Ok([shown.value EXCEPT !.save_btn = "normal"])

\* Variant: the error handler leaves the analyze button disabled.
HandleError_KeepsDisabled(g, msg) ==
    Ok([g EXCEPT !.progress_var = Status("error")])

\* Variant: the error handler also clears the tree view and the result.
HandleError_Clears(g, msg) ==
    Ok([g EXCEPT !.analyze_btn = "normal", !.progress_var = Status("error"),
                 !.tree = <<>>, !.item_paths = <<>>,
                 !.analysis_result = None, !.save_btn = "disabled"])

HandleError(g, msg) ==
    Ok([g EXCEPT !.analyze_btn = "normal", !.progress_var = Status("error")])

HandleMessage(g, m, tcl_error) ==
    CASE m.type = "progress" -> HandleProgress(g, m.msg)
      [] m.type = "success"  -> HandleSuccess(g, m.msg, tcl_error)
      [] m.type = "error"    -> HandleError(g, m.msg)
      [] OTHER               -> Ok(g)

Terminal(m) == IF m.type \in {"success", "error"} THEN m.type ELSE "none"

\* One queue.get_nowait() and the handling of the message it returns.
DrainStep(acc, m, tcl_error) ==
    LET h == HandleMessage(acc.g, m, tcl_error)
    IN [g |-> h.value, n |-> acc.n + 1, raised |-> h.raised,
        terminal |-> IF Terminal(m) # "none" THEN Terminal(m)
                     ELSE acc.terminal]

RECURSIVE Drain(_, _, _)

\* while True: get_nowait and handle, until queue.Empty or until a handler
\* raises.  n: the messages taken; terminal: the last terminal message among
\* them.  (The singleton set binds the state after a message once.)
Drain(q, acc, tcl_error) ==
    IF Len(q) = 0 \/ acc.raised THEN acc
    ELSE CHOOSE d \in {Drain(Tail(q), next, tcl_error) :
                          next \in {DrainStep(acc, Head(q), tcl_error)}} : TRUE

\* Variant: the next poll is scheduled at the end of the try block only.
Reschedule_UnlessRaised(raised) == ~raised

\* finally: self.root.after(100, self.process_queue)
Reschedule(raised) == TRUE

RECURSIVE Reaches(_, _)
\* p lies in the subtree of path
Reaches(path, p) ==
    IF p = path THEN TRUE ELSE IF p = 0 THEN FALSE
    ELSE Reaches(path, Parent(p))

\* The paths the user analyzes: the directory 1 or the file 2.
StartPaths == {1, 2}

EmptyMap == [w \in {} |-> <<>>]

InitScanVars ==
    /\ queue = <<>>
    /\ workers = EmptyMap
    /\ walks_started = 0
    /\ analyzer = None
    /\ analyze_btn = "normal"
    /\ save_btn = "disabled"
    /\ progress_var = Status("ready")
    /\ tree = <<>>
    /\ item_paths = <<>>
    /\ analysis_result = None
    /\ include_content_var = FALSE
    /\ poll_scheduled = TRUE
    /\ saved = None
    /\ sent = EmptyMap
    /\ last_terminal = "none"
    /\ poll_raised = FALSE

\* The walks whose worker thread has not ended.
Alive == {w \in DOMAIN workers : workers[w].pc # "done"}

\* The check box is clicked.
ToggleIncludeContent ==
    /\ include_content_var' = ~include_content_var
    /\ UNCHANGED <<queue, workers, walks_started, analyzer, analyze_btn,
                   save_btn, progress_var, tree, item_paths, analysis_result,
                   poll_scheduled, saved, sent, last_terminal, poll_raised>>
    /\ UNCHANGED <<contentVars, aiVars>>

\* The file system holds still during a walk, so what a walk of path puts
\* on the queue is settled when it is started, but for include_full_content,
\* which the worker thread reads from self.analyzer when it runs.
WalkOf(site, path) ==
    [full \in BOOLEAN |-> AnalyzeFolder(FsWith(site), path, full)]

\* start_analysis, the command of the analyze button (a disabled button
\* does not invoke its command).  exists: os.path.exists(path); site: the
\* condition of the file system during the walk that is started.
StartAnalysis ==
    /\ analyze_btn = "normal"
    /\ walks_started < MaxWalks
    /\ \E exists \in BOOLEAN, path \in StartPaths, site \in FaultSites :
         /\ ValidSite(site)
         /\ IF site[1] = 0 THEN TRUE ELSE Reaches(path, site[1])
         /\ IF ~exists
            THEN UNCHANGED scanVars
            ELSE LET w == walks_started + 1
                 IN /\ analyze_btn' = "disabled"
                    /\ progress_var' = Status("scanning")
                    /\ analyzer' = Some(include_content_var)
                    /\ walks_started' = w
                    /\ workers' = [v \in Alive \cup {w} |->
                                     IF v = w
                                     THEN [path |-> path, site |-> site,
                                           pc |-> "start", full |-> None,
                                           msgs |-> <<>>, pos |-> 0,
                                           walk |-> WalkOf(site, path)]
                                     ELSE workers[v]]
                    /\ sent' = [v \in Alive \cup {w} |->
                                  IF v = w THEN <<>> ELSE sent[v]]
                    /\ saved' = None
                    /\ last_terminal' = "none"
                    /\ UNCHANGED <<queue, save_btn, tree, item_paths,
                                   analysis_result, include_content_var,
                                   poll_scheduled, poll_raised>>
    /\ UNCHANGED <<contentVars, aiVars>>

\* The worker thread enters analyze_folder and binds self.analyzer, which
\* settles what the thread will put on the queue: msgs.
WorkerBegin(w) ==
    /\ workers[w].pc = "start"
    /\ \E msgs \in {workers[w].walk[analyzer[1]]} :
         workers' = [workers EXCEPT ![w].pc = "walk", ![w].full = analyzer,
                                    ![w].msgs = msgs]
    /\ UNCHANGED <<queue, walks_started, analyzer, analyze_btn, save_btn,
                   progress_var, tree, item_paths, analysis_result,
                   include_content_var, poll_scheduled, saved, sent,
                   last_terminal, poll_raised>>
    /\ UNCHANGED <<contentVars, aiVars>>

\* The worker thread's next queue.put; the thread ends after its last one.
WorkerPut(w) ==
    /\ workers[w].pc = "walk"
    /\ LET wk == workers[w]
       IN /\ queue' = Append(queue, wk.msgs[wk.pos + 1])
          /\ sent' = [sent EXCEPT ![w] = Append(@, wk.msgs[wk.pos + 1])]
          /\ workers' = [workers EXCEPT
                           ![w].pos = wk.pos + 1,
                           ![w].pc = IF wk.pos + 1 = Len(wk.msgs) THEN "done"
                                     ELSE "walk"]
    /\ UNCHANGED <<walks_started, analyzer, analyze_btn, save_btn,
                   progress_var, tree, item_paths, analysis_result,
                   include_content_var, poll_scheduled, saved, last_terminal,
                   poll_raised>>
    /\ UNCHANGED <<contentVars, aiVars>>

\* process_queue, run by the pending after() callback.
ProcessQueue ==
    /\ poll_scheduled
    /\ \E tcl_error \in BOOLEAN :
         \E d \in {Drain(queue, [g |-> Gui, n |-> 0, raised |-> FALSE,
                                  terminal |-> "none"], tcl_error)} :
            /\ queue' = SubSeq(queue, d.n + 1, Len(queue))
            /\ analyze_btn' = d.g.analyze_btn
            /\ save_btn' = d.g.save_btn
            /\ progress_var' = d.g.progress_var
            /\ tree' = d.g.tree
            /\ item_paths' = d.g.item_paths
            /\ analysis_result' = d.g.analysis_result
            /\ last_terminal' = IF d.terminal # "none" THEN d.terminal
                                ELSE last_terminal
            /\ poll_raised' = d.raised
            /\ poll_scheduled' = Reschedule(d.raised)
    /\ UNCHANGED <<workers, walks_started, analyzer, include_content_var,
                   saved, sent>>
    /\ UNCHANGED <<contentVars, aiVars>>

\* save_output, the command of the save button, with the output format
\* chosen and a file picked: the records handed to json.dump (one for
\* 'json', one per line for 'jsonl').  The text json.dump writes is not
\* modelled.
SaveOutput ==
    /\ save_btn = "normal"
    /\ \E output_format \in {"json", "jsonl"} :
         IF analysis_result = None
         THEN UNCHANGED saved
         ELSE saved' = Some([format |-> output_format,
                             data |-> analysis_result[1],
                             items |-> IF output_format = "json"
                                       THEN <<analysis_result[1]>>
                                       ELSE flatten_data(analysis_result[1])])
    /\ UNCHANGED <<queue, workers, walks_started, analyzer, analyze_btn,
                   save_btn, progress_var, tree, item_paths, analysis_result,
                   include_content_var, poll_scheduled, sent, last_terminal,
                   poll_raised>>
    /\ UNCHANGED <<contentVars, aiVars>>

InitWalkIdle ==
    /\ ap_path = 1
    /\ ap_site = <<0, "ok">>
    /\ ap_full = FALSE
    /\ ap_out = None

InitContentIdle ==
    /\ gc_file = FileEntry(".py", <<>>)
    /\ gc_full = FALSE
    /\ gc_out = None
    /\ gc_lang = None
    /\ InitWalkIdle

InitAiIdle ==
    /\ stop_event = FALSE
    /\ tasks = <<>>
    /\ ai_output = <<>>
    /\ stops = 0

InitScan == InitScanVars /\ InitContentIdle /\ InitAiIdle

NextScan ==
    \/ ToggleIncludeContent
    \/ StartAnalysis
    \/ \E w \in DOMAIN workers : WorkerBegin(w)
    \/ \E w \in DOMAIN workers : WorkerPut(w)
    \/ ProcessQueue
    \/ SaveOutput

SpecScan == InitScan /\ [][NextScan]_vars

\* The producer and the consumer of the queue, without the check box and
\* the save button, which touch neither the queue nor the polling.
NextPoll ==
    \/ StartAnalysis
    \/ \E w \in DOMAIN workers : WorkerBegin(w)
    \/ \E w \in DOMAIN workers : WorkerPut(w)
    \/ ProcessQueue

\* Tk runs a pending after() callback.
FairSpecPoll == InitScan /\ [][NextPoll]_vars /\ WF_vars(ProcessQueue)

\* A step of a worker thread: a thread that can run is run.
WorkerStep == \E w \in DOMAIN workers : WorkerBegin(w) \/ WorkerPut(w)

\* The threads are scheduled and Tk runs a pending after() callback.
FairSpecWalks ==
    InitScan /\ [][NextPoll]_vars /\ WF_vars(ProcessQueue) /\ WF_vars(WorkerStep)

(***************************************************************************)
(* The AI tasks: the five task buttons, run_ai_task / call_ai_model in a   *)
(* thread per task, and stop_ai_task.                                      *)
(***************************************************************************)
MaxTasks == 2
MaxRecords == 2
MaxStops == 2

RECURSIVE FindItemData(_, _)
RECURSIVE FindInChildren(_, _)

\* find_item_data(data, target_path), as an option
FindItemData(data, target_path) ==
    IF data.path = target_path THEN Some(data)
    ELSE IF data.type = "directory"
    THEN FindInChildren(Contents(data), target_path)
    ELSE None

FindInChildren(children, target_path) ==
    IF Len(children) = 0 THEN None
    ELSE LET found == FindItemData(Head(children), target_path)
         IN IF found # None THEN found
            ELSE FindInChildren(Tail(children), target_path)

\* get_selected_file_content()[0] with the tree row `row` selected (0: no
\* selection), as an option: None stands for the (None, None) answer.
GetSelectedFileContent(row) ==
    IF row = 0 \/ analysis_result = None THEN None
    ELSE LET item_data == FindItemData(analysis_result[1], item_paths[row])
         IN IF item_data # None /\ item_data[1].type = "file"
               /\ "content" \in DOMAIN item_data[1]
            THEN item_data[1].content
            ELSE None

\* if content: a non-empty string
Truthy(content) == content # None /\ Len(content[1]) > 0

\* The text of the n-th record's 'response' field: "Hel", then "lo".
ChunkText(n) == IF n = 1 THEN <<72, 101, 108>> ELSE <<108, 111>>

\* What response.iter_lines() yields next:
\*   chunk      a JSON record with a 'response' fragment
\*   blank      an empty keep-alive line
\*   malformed  a line json.loads rejects
\*   end        the stream is exhausted
LineKinds == {"chunk", "blank", "malformed"}

Piece(t, kind, text) == [by |-> t, kind |-> kind, text |-> text]

\* threading.Event
EventSet(ev) == TRUE
EventClear(ev) == FALSE

\* The five task buttons' commands.
Buttons == {"analyze_code_quality", "suggest_improvements",
            "find_security_issues", "generate_documentation", "explain_file"}

\* The line each command writes into the emptied output.
Header(button) ==
    CASE button = "analyze_code_quality" ->
           <<65, 110, 97, 108, 121, 122, 105, 110, 103, 32, 99, 111, 100,
             101, 32, 113, 117, 97, 108, 105, 116, 121, 46, 46, 46, 10>>
      [] button = "suggest_improvements" ->
           <<83, 117, 103, 103, 101, 115, 116, 105, 110, 103, 32, 105,
             109, 112, 114, 111, 118, 101, 109, 101, 110, 116, 115, 46,
             46, 46, 10>>
      [] button = "find_security_issues" ->
           <<70, 105, 110, 100, 105, 110, 103, 32, 115, 101, 99, 117,
             114, 105, 116, 121, 32, 105, 115, 115, 117, 101, 115, 46,
             46, 46, 10>>
      [] button = "generate_documentation" ->
           <<71, 101, 110, 101, 114, 97, 116, 105, 110, 103, 32, 100,
             111, 99, 117, 109, 101, 110, 116, 97, 116, 105, 111, 110,
             46, 46, 46, 10>>
      [] button = "explain_file" ->
           <<69, 120, 112, 108, 97, 105, 110, 105, 110, 103, 32, 116,
             104, 101, 32, 102, 105, 108, 101, 46, 46, 46, 10>>

\* "\nAI task stopped by user.\n"
StoppedNote ==
    <<10, 65, 73, 32, 116, 97, 115, 107, 32, 115, 116, 111, 112,
      112, 101, 100, 32, 98, 121, 32, 117, 115, 101, 114, 46, 10>>

\* "\nError decoding response: " and str(e) of the JSONDecodeError
DecodeDiagnostic ==
    <<10, 69, 114, 114, 111, 114, 32, 100, 101, 99, 111, 100, 105,
      110, 103, 32, 114, 101, 115, 112, 111, 110, 115, 101, 58, 32>> \o StrOfExc("JSONDecodeError")

\* "Error communicating with AI model: " and str(e)
RequestError(e) ==
    <<69, 114, 114, 111, 114, 32, 99, 111, 109, 109, 117, 110,
      105, 99, 97, 116, 105, 110, 103, 32, 119, 105, 116, 104, 32,
      65, 73, 32, 109, 111, 100, 101, 108, 58, 32>> \o StrOfExc(e)

\* One of the task buttons is pressed with the tree row `row` selected.
StartAiTask ==
    /\ Len(tasks) < MaxTasks
    /\ \E button \in Buttons, row \in 0..Len(tree) :
         IF ~Truthy(GetSelectedFileContent(row))
         THEN UNCHANGED aiVars
         ELSE /\ ai_output' = <<Piece(0, "header", Header(button))>>
              /\ tasks' = Append(tasks, [pc |-> "clear", read |-> 0,
                                         full_response |-> <<>>,
                                         result |-> <<>>,
                                         stopped |-> FALSE,
                                         full_at_stop |-> <<>>,
                                         after_stop |-> <<>>])
              /\ UNCHANGED <<stop_event, stops>>
    /\ UNCHANGED <<contentVars, scanVars>>

\* stop_ai_task, the command of the "Stop AI" button.  History: every task
\* that is running learns that it was asked to stop, and what it had
\* collected by then.
StopAiTask ==
    /\ stops < MaxStops
    /\ stops' = stops + 1
    /\ stop_event' = EventSet(stop_event)
    /\ ai_output' = Append(ai_output, Piece(0, "stopped", StoppedNote))
    /\ tasks' = [t \in DOMAIN tasks |->
                   IF tasks[t].pc # "done" /\ ~tasks[t].stopped
                   THEN [tasks[t] EXCEPT !.stopped = TRUE,
                                         !.full_at_stop = tasks[t].full_response]
                   ELSE tasks[t]]
    /\ UNCHANGED <<contentVars, scanVars>>

\* History: the kinds of the pieces a task has put into the output since it
\* was asked to stop.
Emit(task, kind) ==
    IF task.stopped THEN Append(task.after_stop, kind) ELSE task.after_stop

\* run_ai_task: self.stop_event.clear()
TaskClear(t) ==
    /\ tasks[t].pc = "clear"
    /\ stop_event' = EventClear(stop_event)
    /\ tasks' = [tasks EXCEPT ![t].pc = "post"]
    /\ UNCHANGED <<ai_output, stops, contentVars, scanVars>>

\* call_ai_model: requests.post and raise_for_status; a RequestException
\* makes the call return its message.
TaskPost(t) ==
    /\ tasks[t].pc = "post"
    /\ \E ok \in BOOLEAN :
         tasks' = [tasks EXCEPT
                     ![t].pc = IF ok THEN "iter" ELSE "finish",
                     ![t].result = IF ok THEN <<>> ELSE RequestError("RequestException")]
    /\ UNCHANGED <<stop_event, ai_output, stops, contentVars, scanVars>>

\* call_ai_model: one turn of the loop over response.iter_lines(): the next
\* line, the test of the stop event, and the handling of the line.
TaskRecord(t) ==
    /\ tasks[t].pc = "iter"
    /\ \E line \in (IF tasks[t].read < MaxRecords THEN LineKinds ELSE {})
                   \cup {"end"} :
         LET task == tasks[t]
             chunk == ChunkText(task.read + 1)
             returned(full) ==
                 [task EXCEPT !.pc = "finish", !.result = full]
         IN CASE line = "end" \/ stop_event ->
                   /\ tasks' = [tasks EXCEPT ![t] = returned(task.full_response)]
                   /\ UNCHANGED ai_output
              [] line = "blank" /\ ~stop_event ->
                   /\ tasks' = [tasks EXCEPT ![t].read = task.read + 1]
                   /\ UNCHANGED ai_output
              [] line = "chunk" /\ ~stop_event ->
                   /\ tasks' = [tasks EXCEPT
                                  ![t].read = task.read + 1,
                                  ![t].full_response = task.full_response \o chunk,
                                  ![t].after_stop = Emit(task, "chunk")]
                   /\ ai_output' = Append(ai_output, Piece(t, "chunk", chunk))
              [] line = "malformed" /\ ~stop_event ->
                   /\ tasks' = [tasks EXCEPT
                                  ![t] = [returned(task.full_response) EXCEPT
                                            !.read = task.read + 1,
                                            !.after_stop = Emit(task, "diagnostic")]]
                   /\ ai_output' = Append(ai_output, Piece(t, "diagnostic", DecodeDiagnostic))
    /\ UNCHANGED <<stop_event, stops, contentVars, scanVars>>

\* run_ai_task: if not self.stop_event.is_set(): insert "\n" + result
TaskFinish(t) ==
    /\ tasks[t].pc = "finish"
    /\ IF ~stop_event
       THEN /\ ai_output' = Append(ai_output,
                                   Piece(t, "result", <<10>> \o tasks[t].result))
            /\ tasks' = [tasks EXCEPT ![t].pc = "done",
                                      ![t].after_stop = Emit(tasks[t], "result")]
       ELSE /\ tasks' = [tasks EXCEPT ![t].pc = "done"]
            /\ UNCHANGED ai_output
    /\ UNCHANGED <<stop_event, stops, contentVars, scanVars>>

\* The scan side once a walk of the whole tree, made without content and
\* with nothing failing, has been processed and shown: the state of SpecScan
\* in which files can be selected for an AI task.
ScannedTree == AnalyzePath(BaseFs, 1, FALSE).node

InitScanned ==
    /\ queue = <<>>
    /\ workers = <<[full |-> Some(FALSE), site |-> <<0, "ok">>, path |-> 1,
                    pc |-> "done", msgs |-> AnalyzeFolder(BaseFs, 1, FALSE),
                    pos |-> Len(AnalyzeFolder(BaseFs, 1, FALSE)),
                    walk |-> WalkOf(<<0, "ok">>, 1)]>>
    /\ walks_started = 1
    /\ analyzer = Some(FALSE)
    /\ analyze_btn = "normal"
    /\ save_btn = "normal"
    /\ progress_var = Status("complete")
    /\ tree = AddItems([tree |-> <<>>, item_paths |-> <<>>], 0, ScannedTree).tree
    /\ item_paths = AddItems([tree |-> <<>>, item_paths |-> <<>>], 0,
                             ScannedTree).item_paths
    /\ analysis_result = Some(ScannedTree)
    /\ include_content_var = FALSE
    /\ poll_scheduled = TRUE
    /\ saved = None
    /\ sent = <<AnalyzeFolder(BaseFs, 1, FALSE)>>
    /\ last_terminal = "success"
    /\ poll_raised = FALSE

InitAI == InitScanned /\ InitContentIdle /\ InitAiIdle

NextAI ==
    \/ StartAiTask
    \/ StopAiTask
    \/ \E t \in DOMAIN tasks : TaskClear(t)
    \/ \E t \in DOMAIN tasks : TaskPost(t)
    \/ \E t \in DOMAIN tasks : TaskRecord(t)
    \/ \E t \in DOMAIN tasks : TaskFinish(t)

SpecAI == InitAI /\ [][NextAI]_vars

(***************************************************************************)
(* get_content and detect_language on their own: every file of a bounded   *)
(* family, readable or not, with and without include_full_content.         *)
(***************************************************************************)
MaxExtra == 500
MaxSeed == 2

ByteAlphabet == <<65, 10, 255, 0, 122>>

\* A file's bytes: a pattern over ASCII bytes and 0xFF.
FileBytes(len, seed) ==
    [i \in 1..len |-> ByteAlphabet[((i * seed) % Len(ByteAlphabet)) + 1]]

ContentLengths ==
    {0, BinCap - 1, BinCap, BinCap + 1, TextCap - 1, TextCap, TextCap + 1,
     TextCap + MaxExtra}

InitContent ==
    /\ \E len \in ContentLengths, seed \in 1..MaxSeed,
          ext \in {".py", ".htm", ".png", ".dat"},
          fault \in {"ok", "unreadable"} :
         gc_file = [FileEntry(ext, FileBytes(len, seed)) EXCEPT !.fault = fault]
    /\ gc_full \in BOOLEAN
    /\ gc_out = None
    /\ gc_lang = None
    /\ InitWalkIdle
    /\ InitScanVars
    /\ InitAiIdle

GetContentCall ==
    /\ gc_out = None
    /\ gc_out' = Some(GetContent(gc_file, gc_full))
    /\ UNCHANGED <<gc_file, gc_full, gc_lang, walkVars, scanVars, aiVars>>

DetectLanguageCall ==
    /\ gc_lang = None
    /\ gc_lang' = Some(DetectLanguage(gc_file))
    /\ UNCHANGED <<gc_file, gc_full, gc_out, walkVars, scanVars, aiVars>>

NextContent == GetContentCall \/ DetectLanguageCall

SpecContent == InitContent /\ [][NextContent]_vars

(***************************************************************************)
(* analyze_path on its own: every start path of the tree, under every      *)
(* condition of the file system and with a callback that may raise on one  *)
(* entry's notification.                                                   *)
(***************************************************************************)
\* The entries on whose notification the caller's callback raises.
CallbackSites ==
    { <<2, "callback_raises">>,   \* a file of the root
      <<7, "callback_raises">>,   \* a file two directories down
      <<6, "callback_raises">>,   \* a nested directory
      <<1, "callback_raises">> }  \* the root

WalkSites == FaultSites \cup CallbackSites

InitWalk ==
    /\ ap_path \in Paths
    /\ ap_site \in WalkSites
    /\ ap_full \in BOOLEAN
    /\ ap_out = None
    /\ gc_file = FileEntry(".py", <<>>)
    /\ gc_full = FALSE
    /\ gc_out = None
    /\ gc_lang = None
    /\ InitScanVars
    /\ InitAiIdle

AnalyzePathCall ==
    /\ ap_out = None
    /\ ap_out' = Some(AnalyzePath(FsWith(ap_site), ap_path, ap_full))
    /\ UNCHANGED <<ap_path, ap_site, ap_full, gc_file, gc_full, gc_out,
                   gc_lang, scanVars, aiVars>>

NextWalk == AnalyzePathCall

SpecWalk == InitWalk /\ [][NextWalk]_vars

(***************************************************************************)
(* Properties of get_content                                               *)
(***************************************************************************)
\* The value of a base64 character, and the bytes a base64 text stands for.
B64Value(c) ==
    IF c >= 65 /\ c <= 90 THEN c - 65
    ELSE IF c >= 97 /\ c <= 122 THEN c - 97 + 26
    ELSE IF c >= 48 /\ c <= 57 THEN c - 48 + 52
    ELSE IF c = 43 THEN 62 ELSE IF c = 47 THEN 63 ELSE 0

B64Decode(chars) ==
    LET groups == Len(chars) \div 4
        pad == IF Len(chars) = 0 THEN 0
               ELSE IF chars[Len(chars) - 1] = 61 THEN 2
               ELSE IF chars[Len(chars)] = 61 THEN 1 ELSE 0
        quad(g) == B64Value(chars[4 * g + 1]) * 262144
                   + B64Value(chars[4 * g + 2]) * 4096
                   + B64Value(chars[4 * g + 3]) * 64
                   + B64Value(chars[4 * g + 4])
    IN [i \in 1..(3 * groups - pad) |->
          (quad((i - 1) \div 3) \div (256 ^ (2 - ((i - 1) % 3)))) % 256]

\* The files that are text: by extension (.py) or by MIME type (.htm).
TextFiles == {".py", ".htm"}

\* C2: for a file that was read, truncated holds exactly when the full content
\* was not asked for and the content is longer than the cap (1000 characters
\* of text, 100 bytes of binary); a truncated preview is the first 1000
\* characters, or the base64 of the first 100 bytes; content is the complete
\* payload whatever include_full_content is.
C2_TruncationConsistent ==
    (gc_out # None /\ gc_file.fault = "ok") =>
        LET r == gc_out[1].value
            bytes == gc_file.bytes
            text == gc_file.ext \in TextFiles
            cap == IF text THEN 1000 ELSE 100
        IN /\ r.truncated <=> (~gc_full /\ Len(bytes) > cap)
           /\ Len(r.content) = 1
           /\ IF text
              THEN /\ Len(r.content[1]) = Len(bytes)
                   /\ \A i \in 1..Len(bytes) :
                        r.content[1][i] = IF bytes[i] < 128 THEN bytes[i]
                                          ELSE 65533
                   /\ r.truncated =>
                        r.preview = SubSeq(r.content[1], 1, 1000)
              ELSE /\ B64Decode(r.content[1]) = bytes
                   /\ r.content[1] = B64Encode(bytes)
                   /\ r.truncated =>
                        /\ B64Decode(r.preview) = SubSeq(bytes, 1, 100)
                        /\ r.preview = B64Encode(SubSeq(bytes, 1, 100))

\* C2 witness: a text file of 1001 characters, read without full content,
\* came back truncated.
C2_Witness ==
    /\ gc_out # None
    /\ gc_file.fault = "ok"
    /\ gc_out[1].value.truncated
    /\ gc_file.ext = ".htm"
    /\ Len(gc_file.bytes) = 1001

\* C8: get_content returns a record and never raises; for a file that cannot
\* be read the record has no content, truncated false and a non-empty
\* diagnostic as preview; detect_language never raises and answers
\* "Plain Text" when the file cannot be opened or no lexer is found.
C8_GetContentTotal ==
    /\ gc_out # None =>
         /\ ~gc_out[1].raised
         /\ gc_file.fault # "ok" =>
              /\ gc_out[1].value.content = None
              /\ gc_out[1].value.truncated = FALSE
              /\ Len(gc_out[1].value.preview) > 20
              /\ SubSeq(gc_out[1].value.preview, 1, 5) = <<69, 114, 114, 111, 114>>
    /\ gc_lang # None =>
         /\ ~gc_lang[1].raised
         /\ (gc_file.fault # "ok" \/ gc_file.ext \in {".png", ".dat"}) =>
              gc_lang[1].value = "Plain Text"

\* C8 witness: get_content and detect_language were called on an unreadable
\* file.
C8_Witness ==
    /\ gc_out # None
    /\ gc_lang # None
    /\ gc_file.fault = "unreadable"
    /\ gc_out[1].value.content = None

(***************************************************************************)
(* Properties of the walk and of the scan                                  *)
(***************************************************************************)
RECURSIVE PreOrder(_)
RECURSIVE PreOrderAll(_)
\* The nodes of a tree, each parent before its children, the children in
\* their order.
PreOrder(node) == <<node>> \o PreOrderAll(Contents(node))
PreOrderAll(nodes) ==
    IF Len(nodes) = 0 THEN <<>>
    ELSE PreOrder(Head(nodes)) \o PreOrderAll(Tail(nodes))

SizeOf(node) == IF "size" \in DOMAIN node THEN node.size ELSE 0

RECURSIVE SumOfSizes(_)
SumOfSizes(nodes) ==
    IF Len(nodes) = 0 THEN 0 ELSE SizeOf(Head(nodes)) + SumOfSizes(Tail(nodes))

\* The sizes of the file nodes of a sequence of nodes, added up.
FileBytesOf(nodes) ==
    SumOfSizes(SelectSeq(nodes, LAMBDA n : n.type = "file"))

\* The trees the walks have returned: the payloads of the success messages.
ReturnedTrees ==
    {<<w, i>> \in UNION {{w} \X DOMAIN sent[w] : w \in DOMAIN sent} :
        sent[w][i].type = "success"}

TreeAt(wi) == sent[wi[1]][wi[2]].msg

\* C1: in every returned tree, a directory node that carries a size has the
\* sum of its direct children's sizes (a child without one counting 0),
\* which is the sum of the sizes of the file nodes below it.
C1_SizeAggregation ==
    \A wi \in ReturnedTrees :
        LET nodes == PreOrder(TreeAt(wi))
        IN \A k \in DOMAIN nodes :
             (nodes[k].type = "directory" /\ "size" \in DOMAIN nodes[k]) =>
                 /\ "contents" \in DOMAIN nodes[k]
                 /\ nodes[k].size = SumOfSizes(nodes[k].contents)
                 /\ nodes[k].size = FileBytesOf(PreOrder(nodes[k]))

\* C1 witness: a tree came back whose root holds 11 bytes: the files 2, 4
\* and 5, and the directory 6, which could not be listed, counting 0.
C1_Witness ==
    \E wi \in ReturnedTrees :
        /\ workers[wi[1]].site = <<6, "denied">>
        /\ TreeAt(wi).type = "directory"
        /\ TreeAt(wi).size = 11
        /\ TreeAt(wi).contents[2].size = 2

\* C3: in the messages of one walk, the notification of a directory comes
\* after the notifications of its children, and so of all entries below it.
C3_ProgressPostOrder ==
    \A w \in DOMAIN sent :
        \A i, j \in DOMAIN sent[w] :
            (/\ sent[w][i].type = "progress"
             /\ sent[w][j].type = "progress"
             /\ sent[w][j].msg.kind = "directory"
             /\ sent[w][i].msg.name # sent[w][j].msg.name
             /\ Reaches(sent[w][j].msg.name, sent[w][i].msg.name)) => i < j

\* C3 witness: directory 3 was announced, after its entries 5 and 6.
C3_Witness ==
    \E w \in DOMAIN sent :
        \E i, j, k \in DOMAIN sent[w] :
            /\ sent[w][k].type = "progress" /\ sent[w][k].msg.name = 3
            /\ sent[w][i].type = "progress" /\ sent[w][i].msg.name = 5
            /\ sent[w][j].type = "progress" /\ sent[w][j].msg.name = 6
            /\ i < k /\ j < k

TerminalsOf(w) == {i \in DOMAIN sent[w] : sent[w][i].type \in {"success", "error"}}

\* C4: the worker of a walk puts at most one terminal message, and it is the
\* last message that worker puts.
C4_OneTerminalLast ==
    \A w \in DOMAIN sent :
        /\ Cardinality(TerminalsOf(w)) <= 1
        /\ \A i \in TerminalsOf(w) : i = Len(sent[w])

\* C4 witness: a worker has ended, its terminal message after progress
\* messages.
C4_Witness ==
    \E w \in DOMAIN sent :
        /\ workers[w].pc = "done"
        /\ Len(sent[w]) > 1
        /\ TerminalsOf(w) = {Len(sent[w])}

RECURSIVE FindNode(_, _)
\* The node of a path in the nodes of a tree, as an option.
FindNode(nodes, path) ==
    IF Len(nodes) = 0 THEN None
    ELSE IF Head(nodes).path = path THEN Some(Head(nodes))
    ELSE FindNode(Tail(nodes), path)

\* C5: a failure on one entry of a directory is confined to that entry: the
\* walk ends in success and the node of the parent directory lists every
\* other entry of that directory.
C5_FailureConfined ==
    \A wi \in ReturnedTrees \cup {<<w, Len(sent[w])>> : w \in
                {v \in DOMAIN sent : workers[v].pc = "done"}} :
        LET site == workers[wi[1]].site
            faulty == site[1]
            parent == FindNode(PreOrder(TreeAt(wi)), Parent(faulty))
        IN (faulty # 0 /\ faulty # workers[wi[1]].path) =>
               /\ sent[wi[1]][wi[2]].type = "success"
               /\ parent # None
               /\ "contents" \in DOMAIN parent[1]
               /\ \A p \in Range(BaseFs[Parent(faulty)].entries) \ {faulty} :
                    \E c \in DOMAIN parent[1].contents :
                        parent[1].contents[c].path = p

\* C7: the records save_output writes as JSON lines are one per node of the
\* tree, in pre-order, each the node without its 'contents'; their number is
\* 1 plus the number of descendants of the root.
C7_FlattenPreOrder ==
    (saved # None /\ saved[1].format = "jsonl") =>
        LET nodes == PreOrder(saved[1].data)
            items == saved[1].items
        IN /\ Len(items) = Len(nodes)
           /\ \A k \in DOMAIN items :
                /\ "contents" \notin DOMAIN items[k]
                /\ DOMAIN items[k] = DOMAIN nodes[k] \ {"contents"}
                /\ \A f \in DOMAIN items[k] : items[k][f] = nodes[k][f]

\* C7 witness: the whole tree of seven nodes was written as JSON lines.
C7_Witness ==
    /\ saved # None
    /\ saved[1].format = "jsonl"
    /\ Len(saved[1].items) = 7
    /\ Len(saved[1].data.contents) = 3

\* The messages a step takes off the queue.
TakenInStep ==
    IF Len(queue') < Len(queue)
    THEN SubSeq(queue, 1, Len(queue) - Len(queue'))
    ELSE <<>>

\* C9: a walk that fails as a whole changes nothing of the stored result, the
\* tree view, the path table and the save button: every step that takes no
\* success message off the queue, the processing of the error message
\* included, leaves them as they are.
C9_ErrorLeavesStateUntouched ==
    [][(\A i \in DOMAIN TakenInStep : TakenInStep[i].type # "success")
          => UNCHANGED <<analysis_result, tree, item_paths, save_btn>>]_vars

\* C9 witness: the error message of a failed walk has been processed, and the
\* result of the walk before it is still stored and shown.
C9_Witness ==
    /\ last_terminal = "error"
    /\ analysis_result # None
    /\ Len(tree) = 7
    /\ save_btn = "normal"

\* C10: a process_queue invocation is always pending, whatever the previous
\* one met, and the messages on the queue are eventually taken off it.
C10_PollingNeverStops ==
    /\ []poll_scheduled
    /\ (Len(queue) > 0) ~> (Len(queue) = 0)

\* C10 witness: a handler raised in the latest process_queue and the next
\* invocation is pending.
C10_Witness ==
    /\ poll_raised
    /\ poll_scheduled
    /\ last_terminal = "success"

\* C14: at most one walk is active at a time and the queue has one producer:
\* at most one worker thread is alive; while the analyze button is enabled no
\* worker is alive and the queue is empty; and what is on the queue are the
\* latest messages of the walk started last.
C14_OneScanAtATime ==
    /\ Cardinality(Alive) <= 1
    /\ analyze_btn = "normal" => (Alive = {} /\ Len(queue) = 0)
    /\ Alive \subseteq {walks_started}
    /\ Len(queue) > 0 =>
         /\ walks_started \in DOMAIN sent
         /\ Len(queue) <= Len(sent[walks_started])
         /\ queue = SubSeq(sent[walks_started],
                           Len(sent[walks_started]) - Len(queue) + 1,
                           Len(sent[walks_started]))

\* C14 witness: a second walk was started, after the first one's terminal
\* message was processed; its worker is running with messages on the queue
\* and the button is disabled.
C14_Witness ==
    /\ walks_started = 2
    /\ Alive = {2}
    /\ analyze_btn = "disabled"
    /\ Len(queue) > 0

\* C15: a scan that was started ends for the user: the terminal message of
\* its walk is processed only with nothing of the walk left on the queue, and
\* a disabled analyze button is eventually enabled again, with that terminal
\* message processed and the queue empty.
C15_ScanEventuallyEnds ==
    /\ [](last_terminal # "none" => (Len(queue) = 0 /\ Alive = {}))
    /\ (analyze_btn = "disabled") ~>
           (analyze_btn = "normal" /\ last_terminal # "none" /\ Len(queue) = 0)

\* C15 witness: the second of two walks has ended: its success message was
\* processed, after its progress messages, and the button is enabled again.
C15_Witness ==
    /\ walks_started = 2
    /\ Alive = {}
    /\ analyze_btn = "normal"
    /\ last_terminal = "success"
    /\ Len(sent[2]) > 1
    /\ Len(queue) = 0

(***************************************************************************)
(* Properties of the AI tasks                                              *)
(***************************************************************************)
\* C6: a task that was asked to stop after it was started, at whatever
\* point of its start-up, emits no chunk afterwards, ends without a
\* diagnostic, and its aggregate text stays the concatenation of the chunks
\* emitted before the stop.  Stated for a task that is the only one started,
\* so that no other task's start-up is involved.
C6_StopEndsStream ==
    (Len(tasks) = 1 /\ tasks[1].stopped) =>
        /\ \A i \in DOMAIN tasks[1].after_stop :
               tasks[1].after_stop[i] \notin {"chunk", "diagnostic"}
        /\ tasks[1].full_response = tasks[1].full_at_stop

\* C11: when a record fails to parse, the diagnostic is the last thing the
\* request puts into the output.  Stated for a task that is the only one
\* started, that was never asked to stop and that has ended.
C11_DiagnosticIsFinal ==
    (/\ Len(tasks) = 1
     /\ stops = 0
     /\ tasks[1].pc = "done"
     /\ \E i \in DOMAIN ai_output : ai_output[i].kind = "diagnostic") =>
        ai_output[Len(ai_output)].kind = "diagnostic"

\* C13: starting another request does not undo a stop: once a task has
\* emitted a chunk and a stop was issued after it, that task emits no further
\* chunk.  (The task is past its own start-up, so only another task can have
\* reset the flag.)
C13_StopSurvivesNewRequest ==
    \A i, j, k \in DOMAIN ai_output :
        (/\ i < j /\ j < k
         /\ ai_output[i].kind = "chunk"
         /\ ai_output[j].kind = "stopped") =>
            ~(ai_output[k].kind = "chunk" /\ ai_output[k].by = ai_output[i].by)

(***************************************************************************)
(* Properties of analyze_path on its own                                   *)
(***************************************************************************)
\* C12: no node analyze_path returns is both populated and errored: a node
\* with 'error' has no 'contents', 'items_count' or 'size' and no file
\* content, whatever failed, a child's analysis and the callback included.
C12_NeverPopulatedAndErrored ==
    (ap_out # None /\ ~ap_out[1].raised) =>
        LET nodes == PreOrder(ap_out[1].node)
        IN \A k \in DOMAIN nodes :
             "error" \in DOMAIN nodes[k] =>
                 DOMAIN nodes[k] \cap
                     {"contents", "items_count", "size", "content"} = {}

====
